---- MODULE Spec2Model ----
(***************************************************************************)
(* Model of project.py: parse_transactions, categorize_transactions,       *)
(* monthly_summary, recommend_budget and the command-line driver main.     *)
(*                                                                         *)
(* Representation.                                                         *)
(*   - A Python str is a sequence of one-character strings, so that strip, *)
(*     lower, substring search, strptime and float() are computed on the   *)
(*     characters.  File names are the only strings kept atomic.           *)
(*   - None (where a str may stand) is the one-element sequence None.      *)
(*   - A float amount is a fixed-point number: an integer count of         *)
(*     hundredths (-3.50 is -350, the threshold -500 is -50000).           *)
(*   - A dict whose order matters is a sequence of records [k, v] with     *)
(*     distinct k, in insertion order; a transaction dict is a record      *)
(*     whose DOMAIN is its key set.                                        *)
(*   - A datetime.date is [year, month, day]; NoDate stands for None.      *)
(***************************************************************************)
EXTENDS Integers, Sequences, FiniteSets

VARIABLES
    call,       \* the entry point of this run: "parse", "categorize", "summary", "recommend", "main"
    fs,         \* the file system: file name -> csv.reader rows of the file, or NoFile
    argv,       \* sys.argv
    stdout,     \* what main printed, in order
    m_pc,       \* main's position
    p_src,      \* parse_transactions: csv_source ([kind, name] path, or [kind, rows] stream)
    p_pc,       \* parse_transactions: position
    p_open,     \* parse_transactions: is the file it opened still open
    p_rows,     \* parse_transactions: rows the DictReader has still to yield
    p_fields,   \* parse_transactions: the DictReader's fieldnames
    p_out,      \* parse_transactions: out
    p_err,      \* parse_transactions: the exception raised, or NoErr
    c_in,       \* categorize_transactions: transactions
    c_rules,    \* categorize_transactions: rules (NoRules for None)
    c_pc,
    c_i,        \* categorize_transactions: transactions consumed
    c_out,      \* categorize_transactions: categorized
    s_in,       \* monthly_summary: transactions
    s_pc,
    s_i,
    s_summary,  \* monthly_summary: summary (the defaultdict)
    s_out,      \* monthly_summary: out
    r_in,       \* recommend_budget: monthly
    r_target,   \* recommend_budget: target_savings
    r_pc,
    r_latest,   \* recommend_budget: latest
    r_out       \* recommend_budget: suggestions / the returned list

vars == <<call, fs, argv, stdout, m_pc,
          p_src, p_pc, p_open, p_rows, p_fields, p_out, p_err,
          c_in, c_rules, c_pc, c_i, c_out,
          s_in, s_pc, s_i, s_summary, s_out,
          r_in, r_target, r_pc, r_latest, r_out>>

mainVars == <<argv, stdout, m_pc>>
parseVars == <<p_src, p_pc, p_open, p_rows, p_fields, p_out, p_err>>
catVars == <<c_in, c_rules, c_pc, c_i, c_out>>
sumVars == <<s_in, s_pc, s_i, s_summary, s_out>>
recVars == <<r_in, r_target, r_pc, r_latest, r_out>>

-----------------------------------------------------------------------------
(* Strings *)

None == <<"<None>">>

\* The characters of the model in code-point order.
CodePoints ==
    <<" ", ",", "-", ".", "0", "1", "2", "3", "4", "5", "6", "7", "8", "9", ":",
      "A", "B", "C", "D", "E", "F", "G", "H", "I", "J", "K", "L", "M",
      "N", "O", "P", "Q", "R", "S", "T", "U", "V", "W", "X", "Y", "Z",
      "a", "b", "c", "d", "e", "f", "g", "h", "i", "j", "k", "l", "m",
      "n", "o", "p", "q", "r", "s", "t", "u", "v", "w", "x", "y", "z">>

OrdTable ==
    [ch \in {CodePoints[i] : i \in 1..Len(CodePoints)} |->
        CHOOSE i \in 1..Len(CodePoints) : CodePoints[i] = ch]

\* ord(ch), up to the offset of the first character of the model
Ord(ch) == OrdTable[ch]

Digits == {"0", "1", "2", "3", "4", "5", "6", "7", "8", "9"}

DigitVal(ch) == Ord(ch) - Ord("0")

IsUpper(ch) == Ord(ch) >= Ord("A") /\ Ord(ch) <= Ord("Z")

\* str.lower()
Lower(s) ==
    [i \in 1..Len(s) |->
        IF IsUpper(s[i]) THEN CodePoints[Ord(s[i]) + (Ord("a") - Ord("A"))] ELSE s[i]]

RECURSIVE LStrip(_)
LStrip(s) == IF s # <<>> /\ Head(s) = " " THEN LStrip(Tail(s)) ELSE s

RECURSIVE RStrip(_)
RStrip(s) ==
    IF s # <<>> /\ s[Len(s)] = " " THEN RStrip(SubSeq(s, 1, Len(s) - 1)) ELSE s

\* str.strip()
Strip(s) == RStrip(LStrip(s))

\* kw in desc
Contains(desc, kw) ==
    \E i \in 0..(Len(desc) - Len(kw)) : SubSeq(desc, i + 1, i + Len(kw)) = kw

\* a < b for str: the order sorted() uses on keys and on category names
RECURSIVE StrLess(_, _)
StrLess(a, b) ==
    IF b = <<>> THEN FALSE
    ELSE IF a = <<>> THEN TRUE
    ELSE IF Head(a) = Head(b) THEN StrLess(Tail(a), Tail(b))
    ELSE Ord(Head(a)) < Ord(Head(b))

\* s.replace(",", "")
RECURSIVE RemoveCommas(_)
RemoveCommas(s) ==
    IF s = <<>> THEN <<>>
    ELSE IF Head(s) = "," THEN RemoveCommas(Tail(s))
    ELSE <<Head(s)>> \o RemoveCommas(Tail(s))

\* s.split("-")
RECURSIVE SplitDash(_)
SplitDash(s) ==
    IF \A i \in 1..Len(s) : s[i] # "-" THEN <<s>>
    ELSE LET i == CHOOSE j \in 1..Len(s) :
                      s[j] = "-" /\ \A h \in 1..(j - 1) : s[h] # "-"
         IN <<SubSeq(s, 1, i - 1)>> \o SplitDash(SubSeq(s, i + 1, Len(s)))

AllDigits(s) == s # <<>> /\ \A i \in 1..Len(s) : s[i] \in Digits

RECURSIVE NatOf(_)
NatOf(s) == IF s = <<>> THEN 0 ELSE 10 * NatOf(SubSeq(s, 1, Len(s) - 1)) + DigitVal(s[Len(s)])

-----------------------------------------------------------------------------
(* Dates: datetime.strptime(..., fmt).date() and datetime.fromisoformat *)

NoDate == [year |-> 0, month |-> 0, day |-> 0]

IsLeap(y) == (y % 4 = 0 /\ y % 100 # 0) \/ y % 400 = 0

DaysInMonth(y, m) ==
    IF m = 2 THEN (IF IsLeap(y) THEN 29 ELSE 28)
    ELSE IF m \in {4, 6, 9, 11} THEN 30 ELSE 31

\* datetime(y, m, d) accepts the triple
ValidDate(y, m, d) ==
    y >= 1 /\ m >= 1 /\ m <= 12 /\ d >= 1 /\ d <= DaysInMonth(y, m)

\* One strptime directive against one dash-separated part of the text:
\* %Y is four digits, %m and %d one or two digits.
FieldOk(f, part) ==
    /\ AllDigits(part)
    /\ IF f = "Y" THEN Len(part) = 4 ELSE Len(part) \in {1, 2}

FmtPos(fmt, f) == CHOOSE i \in 1..3 : fmt[i] = f

\* datetime.strptime(text, "%a-%b-%c").date() for fmt = <<a, b, c>>:
\* the date, or NoDate when strptime raises.
StrpDate(text, fmt) ==
    LET parts == SplitDash(text)
    IN IF Len(parts) # 3 \/ \E i \in 1..3 : ~FieldOk(fmt[i], parts[i])
       THEN NoDate
       ELSE LET y == NatOf(parts[FmtPos(fmt, "Y")])
                m == NatOf(parts[FmtPos(fmt, "m")])
                d == NatOf(parts[FmtPos(fmt, "d")])
            IN IF ValidDate(y, m, d)
               THEN [year |-> y, month |-> m, day |-> d]
               ELSE NoDate

\* The time part fromisoformat accepts after the separator: HH, HH:MM, HH:MM:SS.
IsoTimeOk(t) ==
    /\ Len(t) \in {2, 5, 8}
    /\ \A i \in 1..Len(t) : IF i \in {3, 6} THEN t[i] = ":" ELSE t[i] \in Digits
    /\ NatOf(SubSeq(t, 1, 2)) <= 23
    /\ Len(t) >= 5 => NatOf(SubSeq(t, 4, 5)) <= 59
    /\ Len(t) >= 8 => NatOf(SubSeq(t, 7, 8)) <= 59

\* datetime.fromisoformat(text).date(): YYYY-MM-DD, then nothing or one
\* separator character and a time.  NoDate when it raises.
IsoDate(text) ==
    IF /\ Len(text) >= 10
       /\ \A i \in 1..10 : IF i \in {5, 8} THEN text[i] = "-" ELSE text[i] \in Digits
       /\ (Len(text) = 10 \/ (Len(text) >= 12 /\ IsoTimeOk(SubSeq(text, 12, Len(text)))))
    THEN LET y == NatOf(SubSeq(text, 1, 4))
             m == NatOf(SubSeq(text, 6, 7))
             d == NatOf(SubSeq(text, 9, 10))
         IN IF ValidDate(y, m, d) THEN [year |-> y, month |-> m, day |-> d] ELSE NoDate
    ELSE NoDate

\* The formats tried, in order
DateFormats == <<<<"Y", "m", "d">>, <<"d", "m", "Y">>, <<"m", "d", "Y">>>>

\* date_obj after the format loop: the first format that parses the text.
\* raw_date None makes raw_date.strip() raise, which the loop swallows.
RECURSIVE TryFormats(_, _)
TryFormats(t, i) ==
    IF i > Len(DateFormats) THEN NoDate
    ELSE LET d == StrpDate(t, DateFormats[i])
         IN IF d # NoDate THEN d ELSE TryFormats(t, i + 1)

LoopDate(raw_date) == IF raw_date = None THEN NoDate ELSE TryFormats(Strip(raw_date), 1)

\* date_obj after the fallback; NoDate when ValueError is raised.
ParseDate(raw_date) ==
    LET d == LoopDate(raw_date)
    IN IF d # NoDate THEN d
       ELSE IF raw_date = None THEN NoDate
       ELSE IsoDate(Strip(raw_date))

-----------------------------------------------------------------------------
(* Amounts: float(text), in hundredths *)

\* The digits of a fraction as hundredths (digits past the second are below
\* the resolution of the model; the inputs of the model have at most two).
FracVal(fr) ==
    IF Len(fr) = 0 THEN 0
    ELSE IF Len(fr) = 1 THEN 10 * DigitVal(fr[1])
    ELSE 10 * DigitVal(fr[1]) + DigitVal(fr[2])

\* float(text): [ok, val]; ok = FALSE when float raises ValueError.
\* Text: optional blanks, optional "-", digits with at most one ".".
ParseFloat(text) ==
    LET t == Strip(text)
        neg == t # <<>> /\ Head(t) = "-"
        body == IF neg THEN Tail(t) ELSE t
        dots == {i \in 1..Len(body) : body[i] = "."}
        ip == IF dots = {} THEN body ELSE SubSeq(body, 1, (CHOOSE i \in dots : TRUE) - 1)
        fr == IF dots = {} THEN <<>>
              ELSE SubSeq(body, (CHOOSE i \in dots : TRUE) + 1, Len(body))
        wellFormed ==
            /\ Cardinality(dots) <= 1
            /\ \A i \in 1..Len(ip) : ip[i] \in Digits
            /\ \A i \in 1..Len(fr) : fr[i] \in Digits
            /\ Len(ip) + Len(fr) >= 1
    IN IF ~wellFormed THEN [ok |-> FALSE, val |-> 0]
       ELSE LET mag == 100 * NatOf(ip) + FracVal(fr)
            IN [ok |-> TRUE, val |-> IF neg THEN -mag ELSE mag]

\* amount, lines 46-49: float(amt_raw), else float(amt_raw.replace(",", ""))
ParseAmount(amt_raw) ==
    LET a == ParseFloat(amt_raw)
    IN IF a.ok THEN a ELSE ParseFloat(RemoveCommas(amt_raw))

-----------------------------------------------------------------------------
(* csv.DictReader *)

\* row.get(name): the DictReader keys the cells of a row by the fieldnames
\* (a later duplicate name wins); a short row has None for the missing cells.
RowGet(fields, row, name) ==
    LET at == {i \in 1..Len(fields) : fields[i] = name}
    IN IF at = {} THEN None
       ELSE LET i == CHOOSE j \in at : \A h \in at : h <= j
            IN IF i <= Len(row) THEN row[i] ELSE None

\* a or b, for str-or-None operands
Or(a, b) == IF a # None /\ a # <<>> THEN a ELSE b

S_date == <<"d", "a", "t", "e">>
S_Date == <<"D", "a", "t", "e">>
S_description == <<"d", "e", "s", "c", "r", "i", "p", "t", "i", "o", "n">>
S_Description == <<"D", "e", "s", "c", "r", "i", "p", "t", "i", "o", "n">>
S_amount == <<"a", "m", "o", "u", "n", "t">>
S_Amount == <<"A", "m", "o", "u", "n", "t">>

\* raw_date, line 26
RawDate(fields, row) == Or(RowGet(fields, row, S_date), RowGet(fields, row, S_Date))

\* desc, line 27
RowDesc(fields, row) ==
    Strip(Or(Or(RowGet(fields, row, S_description), RowGet(fields, row, S_Description)),
             <<>>))

\* amt_raw, line 28
AmtRaw(fields, row) ==
    Or(Or(RowGet(fields, row, S_amount), RowGet(fields, row, S_Amount)), <<"0">>)

\* The rows the DictReader yields: it skips the rows that are [].
RECURSIVE SkipEmpty(_)
SkipEmpty(rows) ==
    IF rows # <<>> /\ Head(rows) = <<>> THEN SkipEmpty(Tail(rows)) ELSE rows

-----------------------------------------------------------------------------
(* parse_transactions *)

NoErr == [kind |-> "none", raw |-> None]

\* What one iteration of the row loop (lines 24-51) does with a row:
\* raise for the date, raise for the amount, or append a transaction.
RowError(fields, row) ==
    LET raw_date == RawDate(fields, row)
        amt_raw == AmtRaw(fields, row)
    IN IF ParseDate(raw_date) = NoDate THEN [kind |-> "date", raw |-> raw_date]
       ELSE IF ~ParseAmount(amt_raw).ok
       THEN [kind |-> "amount", raw |-> RemoveCommas(amt_raw)]
       ELSE NoErr

RowTransaction(fields, row) ==
    [date |-> ParseDate(RawDate(fields, row)),
     description |-> RowDesc(fields, row),
     amount |-> ParseAmount(AmtRaw(fields, row)).val]

\* Lines 14-22: open the source and build the DictReader, whose fieldnames
\* are the first row of the input, whatever it holds.
ParseOpen ==
    /\ p_pc = "start"
    /\ IF p_src.kind = "path" /\ ~fs[p_src.name].exists
       THEN /\ p_pc' = "raised"
            /\ p_err' = [kind |-> "io", raw |-> None]
            /\ UNCHANGED <<p_open, p_rows, p_fields>>
       ELSE LET rows == IF p_src.kind = "path" THEN fs[p_src.name].rows ELSE p_src.rows
            IN /\ p_open' = (p_src.kind = "path")
               /\ p_fields' = IF rows = <<>> THEN <<>> ELSE Head(rows)
               /\ p_rows' = IF rows = <<>> THEN <<>> ELSE Tail(rows)
               /\ p_pc' = "loop"
               /\ UNCHANGED p_err
    /\ UNCHANGED <<p_src, p_out>>
    /\ UNCHANGED <<call, fs, mainVars, catVars, sumVars, recVars>>

\* One iteration that reaches line 51.
ParseRowAppend ==
    /\ p_pc = "loop"
    /\ SkipEmpty(p_rows) # <<>>
    /\ LET row == Head(SkipEmpty(p_rows))
       IN /\ RowError(p_fields, row) = NoErr
          /\ p_out' = Append(p_out, RowTransaction(p_fields, row))
          /\ p_rows' = Tail(SkipEmpty(p_rows))
    /\ UNCHANGED <<p_src, p_pc, p_open, p_fields, p_err>>
    /\ UNCHANGED <<call, fs, mainVars, catVars, sumVars, recVars>>

\* A row-level recovery instead of the raise of line 43: the row is skipped.
ParseRowDateSkip ==
    /\ p_pc = "loop"
    /\ SkipEmpty(p_rows) # <<>>
    /\ RowError(p_fields, Head(SkipEmpty(p_rows))).kind = "date"
    /\ p_rows' = Tail(SkipEmpty(p_rows))
    /\ UNCHANGED <<p_src, p_pc, p_open, p_fields, p_out, p_err>>
    /\ UNCHANGED <<call, fs, mainVars, catVars, sumVars, recVars>>

\* One iteration that raises at line 43: the call ends, out is dropped and
\* nothing closes f.
ParseRowDateError ==
    /\ p_pc = "loop"
    /\ SkipEmpty(p_rows) # <<>>
    /\ LET row == Head(SkipEmpty(p_rows))
           err == RowError(p_fields, row)
       IN /\ err.kind = "date"
          /\ p_err' = err
          /\ p_rows' = Tail(SkipEmpty(p_rows))
    /\ p_pc' = "raised"
    /\ UNCHANGED <<p_src, p_open, p_fields, p_out>>
    /\ UNCHANGED <<call, fs, mainVars, catVars, sumVars, recVars>>

\* One iteration that raises at line 49.
ParseRowAmountError ==
    /\ p_pc = "loop"
    /\ SkipEmpty(p_rows) # <<>>
    /\ LET row == Head(SkipEmpty(p_rows))
           err == RowError(p_fields, row)
       IN /\ err.kind = "amount"
          /\ p_err' = err
          /\ p_rows' = Tail(SkipEmpty(p_rows))
    /\ p_pc' = "raised"
    /\ UNCHANGED <<p_src, p_open, p_fields, p_out>>
    /\ UNCHANGED <<call, fs, mainVars, catVars, sumVars, recVars>>

\* Lines 53-55: the reader is exhausted.
ParseReturn ==
    /\ p_pc = "loop"
    /\ SkipEmpty(p_rows) = <<>>
    /\ p_open' = FALSE
    /\ p_rows' = <<>>
    /\ p_pc' = "done"
    /\ UNCHANGED <<p_src, p_fields, p_out, p_err>>
    /\ UNCHANGED <<call, fs, mainVars, catVars, sumVars, recVars>>

-----------------------------------------------------------------------------
(* Inputs of the parser *)

MaxRows == 3

HeaderLower == <<S_date, S_description, S_amount>>
HeaderCapital == <<S_Date, S_Description, S_Amount>>

EmptyRow == <<>>

RowPool ==
    { <<<<"2", "0", "2", "5", "-", "0", "1", "-", "0", "5">>, <<"C", "o", "f", "f", "e", "e", " ", "S", "h", "o", "p">>, <<"-", "3", ".", "5", "0">>>>,
      <<<<"0", "5", "-", "0", "2", "-", "2", "0", "2", "5">>, <<" ", "S", "a", "l", "a", "r", "y", " ">>, <<"2", ",", "0", "0", "0">>>>,
      <<<<"0", "1", "-", "2", "5", "-", "2", "0", "2", "5">>>>,
      <<<<" ", "2", "0", "2", "5", "-", "0", "3", "-", "0", "1", "T", "1", "0", ":", "0", "0", " ">>, <<"R", "e", "n", "t">>, <<" ", "-", "6", "0", "0", " ">>>>,
      <<<<"2", "0", "2", "5", "-", "1", "3", "-", "0", "1">>, <<"L", "y", "f", "t">>, <<"5">>>>,
      <<<<"2", "0", "2", "5", "-", "0", "2", "-", "0", "1">>, <<"N", "e", "t", "f", "l", "i", "x">>, <<"x">>>>,
      <<<<>>, <<"W", "a", "l", "m", "a", "r", "t">>, <<"n", ".", "a">>>>,
      EmptyRow }

RECURSIVE SeqsUpTo(_, _)
SeqsUpTo(S, n) ==
    IF n = 0 THEN {<<>>}
    ELSE SeqsUpTo(S, n - 1) \cup
         {Append(q, x) : q \in {r \in SeqsUpTo(S, n - 1) : Len(r) = n - 1}, x \in S}

\* The rows csv.reader gives for a file: possibly a blank first line, a
\* header line, data rows.  Also the file with no line at all.
FilesUpTo(n) ==
    {<<>>} \cup
    {pre \o data :
        pre \in {<<HeaderLower>>, <<HeaderCapital>>, <<EmptyRow, HeaderLower>>},
        data \in SeqsUpTo(RowPool, n)}

FilePool == FilesUpTo(MaxRows)

NoFile == [exists |-> FALSE, rows |-> <<>>]
File(rows) == [exists |-> TRUE, rows |-> rows]

FileNames == {"sample.csv", "a.csv"}

IdleMain ==
    /\ argv = <<"project.py">>
    /\ stdout = <<>>
    /\ m_pc = "idle"

IdleParse ==
    /\ p_src = [kind |-> "stream", name |-> "", rows |-> <<>>]
    /\ p_pc = "idle"
    /\ p_open = FALSE
    /\ p_rows = <<>>
    /\ p_fields = <<>>
    /\ p_out = <<>>
    /\ p_err = NoErr

IdleCat ==
    /\ c_in = <<>>
    /\ c_rules = [none |-> TRUE, items |-> <<>>]
    /\ c_pc = "idle"
    /\ c_i = 0
    /\ c_out = <<>>

IdleSum ==
    /\ s_in = <<>>
    /\ s_pc = "idle"
    /\ s_i = 0
    /\ s_summary = <<>>
    /\ s_out = <<>>

IdleRec ==
    /\ r_in = <<>>
    /\ r_target = 0
    /\ r_pc = "idle"
    /\ r_latest = None
    /\ r_out = <<>>

\* A direct call parse_transactions(csv_source), with a stream or a path.
InitParse ==
    /\ call = "parse"
    /\ \E src \in {"stream", "path"}, present \in BOOLEAN, rows \in FilePool :
          /\ src = "stream" => present
          /\ ~present => rows = <<>>
          /\ fs = [n \in FileNames |->
                     IF n = "a.csv" /\ src = "path" /\ present THEN File(rows) ELSE NoFile]
          /\ p_src = IF src = "path"
                     THEN [kind |-> "path", name |-> "a.csv", rows |-> <<>>]
                     ELSE [kind |-> "stream", name |-> "", rows |-> rows]
    /\ p_pc = "start"
    /\ p_open = FALSE
    /\ p_rows = <<>>
    /\ p_fields = <<>>
    /\ p_out = <<>>
    /\ p_err = NoErr
    /\ IdleMain /\ IdleCat /\ IdleSum /\ IdleRec

NextParse ==
    \/ ParseOpen
    \/ ParseRowAppend
    \/ ParseRowDateError
    \/ ParseRowAmountError
    \/ ParseReturn

SpecParse == InitParse /\ [][NextParse]_vars

-----------------------------------------------------------------------------
(* Claims about parse_transactions (specification SpecParse) *)

ParseEnded == p_pc \in {"done", "raised"}

\* The rows csv.reader gives for the source of the call
InputRows == IF p_src.kind = "path" THEN fs[p_src.name].rows ELSE p_src.rows

IsNonEmptyRow(r) == r # <<>>

\* What the DictReader makes of them: fieldnames, and the rows it yields
ReaderFields == IF InputRows = <<>> THEN <<>> ELSE Head(InputRows)
ReaderRows == IF InputRows = <<>> THEN <<>> ELSE SelectSeq(Tail(InputRows), IsNonEmptyRow)

BadDateAt ==
    {i \in 1..Len(ReaderRows) : ParseDate(RawDate(ReaderFields, ReaderRows[i])) = NoDate}

BadAmountAt ==
    {i \in 1..Len(ReaderRows) : ~ParseAmount(AmtRaw(ReaderFields, ReaderRows[i])).ok}

Min(S) == CHOOSE x \in S : \A y \in S : x <= y

\* C1: when parse_transactions is given a path, the file it opened is closed
\* on every exit path of the call, the failing ones included: no call ends
\* with the file still open.
C1_FileClosedOnEveryExit == ParseEnded => ~p_open

\* C2 as stated: a row with an unparseable date makes the call fail with the
\* date error that carries the raw text of such a row, and nothing is
\* returned, wherever the row stands.
C2_AnyBadDateRaisesDateError ==
    (ParseEnded /\ BadDateAt # {}) =>
        /\ p_pc = "raised"
        /\ p_err.kind = "date"
        /\ \E i \in BadDateAt : p_err.raw = RawDate(ReaderFields, ReaderRows[i])

\* C2 amended: a row with an unparseable date makes the call fail and return
\* nothing, wherever the row stands; the error raised is that of the first
\* failing row: the date error carrying the raw date the code read for the
\* first such row (None where row.get gave nothing), unless an earlier row
\* has an unparseable amount, and then the numeric error of the first of
\* those.
C2_BadDateFailsFast ==
    (ParseEnded /\ BadDateAt # {}) =>
        /\ p_pc = "raised"
        /\ LET d == Min(BadDateAt)
               before == {j \in BadAmountAt : j < d}
           IN IF before = {}
              THEN p_err = [kind |-> "date", raw |-> RawDate(ReaderFields, ReaderRows[d])]
              ELSE /\ p_err.kind = "amount"
                   /\ p_err.raw = RemoveCommas(AmtRaw(ReaderFields, ReaderRows[Min(before)]))

\* Witness of C2: the call failed on a bad date after rows that had parsed.
C2_Witness ==
    /\ p_pc = "raised"
    /\ p_err.kind = "date"
    /\ Len(p_out) >= 2
    /\ Min(BadDateAt) = 3

\* The reading of the input the claim C3 makes: the header is the first
\* non-empty row, the data rows are the non-empty rows after it.
ClaimRows == SelectSeq(InputRows, IsNonEmptyRow)
ClaimFields == Head(ClaimRows)
ClaimData == Tail(ClaimRows)

ClaimAllValid ==
    \A i \in 1..Len(ClaimData) :
        /\ ParseDate(RawDate(ClaimFields, ClaimData[i])) # NoDate
        /\ ParseAmount(AmtRaw(ClaimFields, ClaimData[i])).ok

InOrder ==
    /\ Len(p_out) = Len(ClaimData)
    /\ \A i \in 1..Len(ClaimData) :
          /\ p_out[i].description = RowDesc(ClaimFields, ClaimData[i])
          /\ p_out[i].amount = ParseAmount(AmtRaw(ClaimFields, ClaimData[i])).val

\* C3: for an input whose data rows are all valid, the call returns one
\* transaction per non-empty data row, in row order, the i-th with the
\* description and amount of the i-th non-empty data row; empty rows
\* contribute nothing.
C3_OnePerValidRowInOrder ==
    (ParseEnded /\ p_err.kind # "io" /\ ClaimRows # <<>> /\ ClaimAllValid) =>
        (p_pc = "done" /\ InOrder)

\* The same with the header on the first line of the input: there it holds.
C3_HeaderOnFirstLine ==
    (ParseEnded /\ p_err.kind # "io" /\ ClaimRows # <<>> /\ ClaimAllValid
        /\ Head(InputRows) # <<>>) =>
        (p_pc = "done" /\ InOrder)

-----------------------------------------------------------------------------
(* categorize_transactions *)

Uncategorized == <<"U", "n", "c", "a", "t", "e", "g", "o", "r", "i", "z", "e", "d">>
CatCoffee == <<"C", "o", "f", "f", "e", "e">>
CatGroceries == <<"G", "r", "o", "c", "e", "r", "i", "e", "s">>
CatHousing == <<"H", "o", "u", "s", "i", "n", "g">>
CatIncome == <<"I", "n", "c", "o", "m", "e">>
CatShopping == <<"S", "h", "o", "p", "p", "i", "n", "g">>
CatSubscriptions == <<"S", "u", "b", "s", "c", "r", "i", "p", "t", "i", "o", "n", "s">>
CatTransport == <<"T", "r", "a", "n", "s", "p", "o", "r", "t">>

\* The rules used when rules is None, lines 64-79, in insertion order
DefaultRules ==
    <<[k |-> <<"s", "t", "a", "r", "b", "u", "c", "k", "s">>, v |-> CatCoffee],
      [k |-> <<"c", "o", "f", "f", "e", "e">>, v |-> CatCoffee],
      [k |-> <<"u", "b", "e", "r">>, v |-> CatTransport],
      [k |-> <<"l", "y", "f", "t">>, v |-> CatTransport],
      [k |-> <<"w", "a", "l", "m", "a", "r", "t">>, v |-> CatGroceries],
      [k |-> <<"s", "u", "p", "e", "r", "m", "a", "r", "k", "e", "t">>, v |-> CatGroceries],
      [k |-> <<"s", "a", "l", "a", "r", "y">>, v |-> CatIncome],
      [k |-> <<"p", "a", "y", "r", "o", "l", "l">>, v |-> CatIncome],
      [k |-> <<"r", "e", "n", "t">>, v |-> CatHousing],
      [k |-> <<"m", "o", "r", "t", "g", "a", "g", "e">>, v |-> CatHousing],
      [k |-> <<"s", "u", "b", "s", "c", "r", "i", "p", "t", "i", "o", "n", "s">>, v |-> CatSubscriptions],
      [k |-> <<"n", "e", "t", "f", "l", "i", "x">>, v |-> CatSubscriptions],
      [k |-> <<"a", "m", "a", "z", "o", "n">>, v |-> CatShopping],
      [k |-> <<"g", "r", "o", "c", "e", "r", "y">>, v |-> CatGroceries]>>

\* t.get(key), with None for a missing key
TxGet(t, key) == IF key \in DOMAIN t THEN t[key] ELSE None

\* dict(t) with t[key] = value
TxPut(t, key, value) ==
    [x \in DOMAIN t \cup {key} |-> IF x = key THEN value ELSE t[x]]

\* Last match wins: the loop of lines 85-88 without its break.
RECURSIVE MatchLast(_, _)
MatchLast(desc, rules) ==
    IF rules = <<>> THEN Uncategorized
    ELSE LET r == rules[Len(rules)]
         IN IF Contains(desc, r.k) THEN r.v
            ELSE MatchLast(desc, SubSeq(rules, 1, Len(rules) - 1))

\* cat after lines 84-88: the category of the first rule, in the order of
\* rules.items(), whose keyword is in desc.
RECURSIVE MatchCategory(_, _)
MatchCategory(desc, rules) ==
    IF rules = <<>> THEN Uncategorized
    ELSE IF Contains(desc, Head(rules).k) THEN Head(rules).v
    ELSE MatchCategory(desc, Tail(rules))

\* desc, line 83
TxDesc(t) == Lower(Or(TxGet(t, "description"), <<>>))

\* Lines 63-81
CatStart ==
    /\ c_pc = "start"
    /\ c_rules' = IF c_rules.none THEN [none |-> FALSE, items |-> DefaultRules] ELSE c_rules
    /\ c_out' = <<>>
    /\ c_i' = 0
    /\ c_pc' = "loop"
    /\ UNCHANGED c_in
    /\ UNCHANGED <<call, fs, mainVars, parseVars, sumVars, recVars>>

\* One iteration of the loop of lines 82-91
CatStep ==
    /\ c_pc = "loop"
    /\ c_i < Len(c_in)
    /\ LET t == c_in[c_i + 1]
           cat == MatchCategory(TxDesc(t), c_rules.items)
       IN c_out' = Append(c_out, TxPut(t, "category", cat))
    /\ c_i' = c_i + 1
    /\ UNCHANGED <<c_in, c_rules, c_pc>>
    /\ UNCHANGED <<call, fs, mainVars, parseVars, sumVars, recVars>>

\* Line 92
CatReturn ==
    /\ c_pc = "loop"
    /\ c_i = Len(c_in)
    /\ c_pc' = "done"
    /\ UNCHANGED <<c_in, c_rules, c_i, c_out>>
    /\ UNCHANGED <<call, fs, mainVars, parseVars, sumVars, recVars>>

-----------------------------------------------------------------------------
(* Inputs of the categorizer *)

MaxTx == 2
MaxRules == 2

D1 == [year |-> 2025, month |-> 1, day |-> 5]

CatTxPool ==
    { [date |-> NoDate, description |-> <<"S", "t", "a", "r", "b", "u", "c", "k", "s", " ", "d", "o", "w", "n", "t", "o", "w", "n">>, amount |-> -425],
      [date |-> NoDate, description |-> <<"U", "n", "k", "n", "o", "w", "n", " ", "M", "e", "r", "c", "h", "a", "n", "t">>, amount |-> -1200],
      [date |-> D1, description |-> <<"C", "o", "f", "f", "e", "e", " ", "S", "h", "o", "p">>, amount |-> -350],
      [date |-> D1, description |-> <<"U", "b", "e", "r", " ", "r", "e", "n", "t">>, amount |-> -900, category |-> CatIncome],
      [date |-> D1, description |-> None, amount |-> 100],
      [date |-> D1, amount |-> 0] }

RulePool ==
    { [k |-> <<"c", "o", "f", "f", "e", "e">>, v |-> CatCoffee],
      [k |-> <<"c", "o", "f", "f", "e", "e", " ", "s", "h", "o", "p">>, v |-> <<"C", "a", "f", "e">>],
      [k |-> <<"s", "h", "o", "p">>, v |-> CatShopping],
      [k |-> <<"U", "b", "e", "r">>, v |-> CatTransport],
      [k |-> <<>>, v |-> <<"A", "n", "y">>] }

\* The sequences over S without repetition, of length at most n: a dict has
\* one item per key.
InjSeqsUpTo(S, n) ==
    {q \in SeqsUpTo(S, n) : \A i, j \in 1..Len(q) : i # j => q[i].k # q[j].k}

RulesArgs ==
    {[none |-> TRUE, items |-> <<>>]} \cup
    {[none |-> FALSE, items |-> r] : r \in InjSeqsUpTo(RulePool, MaxRules)}

\* A direct call categorize_transactions(transactions, rules)
InitCat ==
    /\ call = "categorize"
    /\ fs = [n \in FileNames |-> NoFile]
    /\ c_in \in SeqsUpTo(CatTxPool, MaxTx)
    /\ c_rules \in RulesArgs
    /\ c_pc = "start"
    /\ c_i = 0
    /\ c_out = <<>>
    /\ IdleMain /\ IdleParse /\ IdleSum /\ IdleRec

NextCat ==
    \/ CatStart
    \/ CatStep
    \/ CatReturn

SpecCat == InitCat /\ [][NextCat]_vars

\* C4: every transaction gets exactly one category, that of the first
\* keyword, in rule order, that is a substring of the lowercased description,
\* whatever later keywords match and however long they are, and
\* "Uncategorized" when no keyword is a substring (an absent description
\* counts as empty); the output has one element per input transaction, in
\* input order.
C4_FirstMatchingRuleWins ==
    c_pc = "done" =>
        /\ Len(c_out) = Len(c_in)
        /\ \A i \in 1..Len(c_in) :
              LET t == c_in[i]
                  d == IF "description" \in DOMAIN t /\ t.description # None
                       THEN Lower(t.description) ELSE <<>>
                  hits == {j \in 1..Len(c_rules.items) : Contains(d, c_rules.items[j].k)}
              IN /\ DOMAIN c_out[i] = DOMAIN t \cup {"category"}
                 /\ \A x \in DOMAIN t \ {"category"} : c_out[i][x] = t[x]
                 /\ c_out[i].category =
                        IF hits = {} THEN Uncategorized ELSE c_rules.items[Min(hits)].v

\* Witness of C4: two keywords of different categories match a description,
\* the later one longer, and the transaction has the category of the first.
C4_Witness ==
    /\ c_pc = "done"
    /\ \E i \in 1..Len(c_in) : \E j, h \in 1..Len(c_rules.items) :
          /\ j < h
          /\ Contains(TxDesc(c_in[i]), c_rules.items[j].k)
          /\ Contains(TxDesc(c_in[i]), c_rules.items[h].k)
          /\ Len(c_rules.items[j].k) < Len(c_rules.items[h].k)
          /\ c_rules.items[j].v # c_rules.items[h].v
          /\ \A g \in 1..(j - 1) : ~Contains(TxDesc(c_in[i]), c_rules.items[g].k)
          /\ c_out[i].category = c_rules.items[j].v

-----------------------------------------------------------------------------
(* monthly_summary *)

Unknown == <<"u", "n", "k", "n", "o", "w", "n">>

\* str(n) for n >= 0
RECURSIVE NatStr(_)
NatStr(n) ==
    IF n < 10 THEN <<CodePoints[Ord("0") + n]>>
    ELSE NatStr(n \div 10) \o <<CodePoints[Ord("0") + (n % 10)]>>

\* f"{n:0wd}": zero-padded on the left to width w, never truncated
RECURSIVE ZeroPad(_, _)
ZeroPad(str, w) == IF Len(str) >= w THEN str ELSE ZeroPad(<<"0">> \o str, w)

\* The key without the year: f"{date.month:02d}"
MonthOnlyKey(date) ==
    IF date = NoDate THEN Unknown ELSE ZeroPad(NatStr(date.month), 2)

\* key, lines 102-106
MonthKey(date) ==
    IF date = NoDate THEN Unknown
    ELSE ZeroPad(NatStr(date.year), 4) \o <<"-">> \o ZeroPad(NatStr(date.month), 2)

\* Ordered dicts: sequences of items [k, v] with distinct k
DictKeys(d) == {d[i].k : i \in 1..Len(d)}

DictGet(d, key, default) ==
    IF key \in DictKeys(d) THEN d[CHOOSE i \in 1..Len(d) : d[i].k = key].v ELSE default

\* d[key] = value: in place for a key of d, at the end for a new key
DictSet(d, key, value) ==
    IF key \in DictKeys(d)
    THEN [i \in 1..Len(d) |-> IF d[i].k = key THEN [k |-> key, v |-> value] ELSE d[i]]
    ELSE Append(d, [k |-> key, v |-> value])

\* The value the defaultdict of lines 97-99 makes for a new key
NewSummary == [total |-> 0, count |-> 0, by_category |-> <<>>]

\* t.get("date"), None when missing
TxDate(t) == IF "date" \in DOMAIN t THEN t.date ELSE NoDate

\* amt, line 108
TxAmount(t) == IF "amount" \in DOMAIN t THEN t.amount ELSE 0

\* cat, line 109
TxCategory(t) == IF "category" \in DOMAIN t THEN t.category ELSE Uncategorized

\* Lines 111-113 on the summary of one month
Accumulate(v, amt, cat) ==
    [total |-> v.total + amt,
     count |-> v.count + 1,
     by_category |-> DictSet(v.by_category, cat, DictGet(v.by_category, cat, 0) + amt)]

\* Lines 97-99
SumStart ==
    /\ s_pc = "start"
    /\ s_summary' = <<>>
    /\ s_i' = 0
    /\ s_pc' = "loop"
    /\ UNCHANGED <<s_in, s_out>>
    /\ UNCHANGED <<call, fs, mainVars, parseVars, catVars, recVars>>

\* One iteration of the loop of lines 101-113
SumStep ==
    /\ s_pc = "loop"
    /\ s_i < Len(s_in)
    /\ LET t == s_in[s_i + 1]
           key == MonthKey(TxDate(t))
       IN s_summary' =
              DictSet(s_summary, key,
                      Accumulate(DictGet(s_summary, key, NewSummary),
                                 TxAmount(t), TxCategory(t)))
    /\ s_i' = s_i + 1
    /\ UNCHANGED <<s_in, s_pc, s_out>>
    /\ UNCHANGED <<call, fs, mainVars, parseVars, catVars, recVars>>

\* Lines 115-123: the defaultdicts copied to plain dicts, item by item
SumReturn ==
    /\ s_pc = "loop"
    /\ s_i = Len(s_in)
    /\ s_out' = [i \in 1..Len(s_summary) |->
                    [k |-> s_summary[i].k,
                     v |-> [total |-> s_summary[i].v.total,
                            count |-> s_summary[i].v.count,
                            by_category |-> s_summary[i].v.by_category]]]
    /\ s_pc' = "done"
    /\ UNCHANGED <<s_in, s_i, s_summary>>
    /\ UNCHANGED <<call, fs, mainVars, parseVars, catVars, recVars>>

-----------------------------------------------------------------------------
(* Inputs of the aggregator *)

MaxSumTx == 3

CatX == <<"X">>
CatY == <<"Y">>

SumTxPool ==
    { [date |-> [year |-> 2025, month |-> 1, day |-> 1],
       description |-> <<"A">>, amount |-> -1000, category |-> CatX],
      [date |-> [year |-> 2025, month |-> 1, day |-> 5],
       description |-> <<"B">>, amount |-> -500, category |-> CatY],
      [date |-> [year |-> 2025, month |-> 2, day |-> 1],
       description |-> <<"C">>, amount |-> 10000, category |-> CatIncome],
      [date |-> [year |-> 2024, month |-> 1, day |-> 31],
       description |-> <<"D">>, amount |-> -250, category |-> CatX],
      [date |-> NoDate, description |-> <<"E">>, amount |-> 1000, category |-> CatX],
      [description |-> <<"F">>, amount |-> 300],
      [date |-> [year |-> 2025, month |-> 12, day |-> 1], category |-> CatY] }

\* A direct call monthly_summary(transactions)
InitSum ==
    /\ call = "summary"
    /\ fs = [n \in FileNames |-> NoFile]
    /\ s_in \in SeqsUpTo(SumTxPool, MaxSumTx)
    /\ s_pc = "start"
    /\ s_i = 0
    /\ s_summary = <<>>
    /\ s_out = <<>>
    /\ IdleMain /\ IdleParse /\ IdleCat /\ IdleRec

NextSum ==
    \/ SumStart
    \/ SumStep
    \/ SumReturn

SpecSum == InitSum /\ [][NextSum]_vars

\* Two transactions of the same calendar month, or both without a date
SameMonth(t, u) ==
    /\ TxDate(t).year = TxDate(u).year
    /\ TxDate(t).month = TxDate(u).month

RECURSIVE SumOver(_, _)
SumOver(txs, idx) ==
    IF idx = {} THEN 0
    ELSE LET i == CHOOSE x \in idx : TRUE
         IN TxAmount(txs[i]) + SumOver(txs, idx \ {i})

\* C5: the result has an entry for a month key exactly when a transaction
\* maps to it (YYYY-MM of its date, "unknown" without a date); the entry's
\* total is the sum of the amounts of exactly those transactions, its count
\* their number, and by_category[c] the sum of the amounts of those of
\* category c.
C5_SummaryPerMonth ==
    s_pc = "done" =>
        /\ \A i, j \in 1..Len(s_out) : i # j => s_out[i].k # s_out[j].k
        /\ \A i \in 1..Len(s_out) : \E n \in 1..Len(s_in) : s_out[i].k = MonthKey(TxDate(s_in[n]))
        /\ \A n \in 1..Len(s_in) :
              LET key == MonthKey(TxDate(s_in[n]))
                  group == {h \in 1..Len(s_in) : SameMonth(s_in[h], s_in[n])}
                  cats == {TxCategory(s_in[h]) : h \in group}
              IN /\ key \in DictKeys(s_out)
                 /\ LET e == DictGet(s_out, key, NewSummary)
                    IN /\ e.total = SumOver(s_in, group)
                       /\ e.count = Cardinality(group)
                       /\ DictKeys(e.by_category) = cats
                       /\ \A i, j \in 1..Len(e.by_category) :
                             i # j => e.by_category[i].k # e.by_category[j].k
                       /\ \A c \in cats :
                             DictGet(e.by_category, c, 0) =
                                 SumOver(s_in, {h \in group : TxCategory(s_in[h]) = c})

\* Witness of C5: the months of the repository's test, 2025-01 with two
\* transactions of two categories and 2025-02 with one.
C5_Witness ==
    /\ s_pc = "done"
    /\ Len(s_out) = 2
    /\ s_out[1].k = <<"2", "0", "2", "5", "-", "0", "1">>
    /\ s_out[1].v.total = -1500
    /\ s_out[1].v.count = 2
    /\ DictGet(s_out[1].v.by_category, CatX, 0) = -1000
    /\ s_out[2].k = <<"2", "0", "2", "5", "-", "0", "2">>
    /\ s_out[2].v.total = 10000

-----------------------------------------------------------------------------
(* recommend_budget *)

\* The threshold of line 145 and the slice of line 146, in the units of the
\* source; amounts of the model are hundredths.
OverspendThreshold == -500
TopCount == 3

\* The strings the function can return, by kind; cat, amt and target are
\* the values formatted into the string (amounts in hundredths, which is
\* what :.2f prints).
Suggestion(kind, cat, amt, target) ==
    [kind |-> kind, cat |-> cat, amt |-> amt, target |-> target]

NoData == Suggestion("no_data", None, 0, 0)
Reasonable == Suggestion("reasonable", None, 0, 0)
Meeting == Suggestion("meeting", None, 0, 0)

Abs(x) == IF x < 0 THEN -x ELSE x

\* amt * 0.2 to two decimals: a fifth of the hundredths, to the nearest
\* (a fifth never lies halfway between two integers)
Fifth(h) == (2 * h + 5) \div 10

\* sorted(strs): insertion into an ascending list
RECURSIVE InsertStr(_, _)
InsertStr(sorted, x) ==
    IF sorted = <<>> THEN <<x>>
    ELSE IF StrLess(x, Head(sorted)) THEN <<x>> \o sorted
    ELSE <<Head(sorted)>> \o InsertStr(Tail(sorted), x)

RECURSIVE SortedStrs(_)
SortedStrs(strs) ==
    IF strs = <<>> THEN <<>>
    ELSE InsertStr(SortedStrs(SubSeq(strs, 1, Len(strs) - 1)), strs[Len(strs)])

IsKnownKey(item) == item.k # Unknown

RECURSIVE KeysOf(_)
KeysOf(d) == IF d = <<>> THEN <<>> ELSE <<Head(d).k>> \o KeysOf(Tail(d))

\* The key inserted last, whatever it is
LastKey(monthly) == monthly[Len(monthly)].k

\* latest, lines 134-138
Latest(monthly) ==
    LET known == KeysOf(SelectSeq(monthly, IsKnownKey))
    IN IF known # <<>> THEN SortedStrs(known)[Len(known)] ELSE LastKey(monthly)

\* (a1, k1) > (a2, k2) for the tuples (abs(v), k) of line 146
PairGreater(p, r) == p.a > r.a \/ (p.a = r.a /\ StrLess(r.k, p.k))

RECURSIVE InsertPair(_, _)
InsertPair(sorted, x) ==
    IF sorted = <<>> THEN <<x>>
    ELSE IF PairGreater(x, Head(sorted)) THEN <<x>> \o sorted
    ELSE <<Head(sorted)>> \o InsertPair(Tail(sorted), x)

\* sorted(((abs(v), k) for k, v in by_cat.items()), reverse=True)
RECURSIVE SortedPairs(_)
SortedPairs(by_cat) ==
    IF by_cat = <<>> THEN <<>>
    ELSE InsertPair(SortedPairs(Tail(by_cat)),
                    [a |-> Abs(Head(by_cat).v), k |-> Head(by_cat).k])

Take(seq, n) == SubSeq(seq, 1, IF Len(seq) < n THEN Len(seq) ELSE n)

\* The slice without the sort: the first categories in dict order
FirstPairs(by_cat) ==
    Take([i \in 1..Len(by_cat) |-> [a |-> Abs(by_cat[i].v), k |-> by_cat[i].k]], TopCount)

\* top_spend, line 146
TopSpend(by_cat) == Take(SortedPairs(by_cat), TopCount)

\* <= in place of the < of line 145
OverspendsInclusive(total) == total <= OverspendThreshold * 100

\* The test of line 145
Overspends(total) == total < OverspendThreshold * 100

\* suggestions after lines 144-152
SpendingPart(data) ==
    IF Overspends(data.total)
    THEN LET top == TopSpend(data.by_category)
         IN [i \in 1..Len(top) |-> Suggestion("reduce", top[i].k, Fifth(top[i].a), 0)]
    ELSE <<Reasonable>>

\* The savings branch with need >= 0 in place of the need > 0 of line 158
SavingsPartInclusive(total, target_savings) ==
    IF target_savings > 0
    THEN LET current_savings == IF total > 0 THEN total ELSE 0
             diff == target_savings - current_savings
             need == IF diff > 0 THEN diff ELSE 0
         IN IF need >= 0
            THEN <<Suggestion("increase", None, need, target_savings)>>
            ELSE <<Meeting>>
    ELSE <<>>

\* What lines 154-163 append
SavingsPart(total, target_savings) ==
    IF target_savings > 0
    THEN LET current_savings == IF total > 0 THEN total ELSE 0
             diff == target_savings - current_savings
             need == IF diff > 0 THEN diff ELSE 0
         IN IF need > 0
            THEN <<Suggestion("increase", None, need, target_savings)>>
            ELSE <<Meeting>>
    ELSE <<>>

\* recommend_budget(monthly, target_savings) as a function of its arguments
RecommendBudget(monthly, target_savings) ==
    IF monthly = <<>> THEN <<NoData>>
    ELSE LET data == DictGet(monthly, Latest(monthly), NewSummary)
         IN SpendingPart(data) \o SavingsPart(data.total, target_savings)

\* Lines 130-131
RecNoData ==
    /\ r_pc = "start"
    /\ r_in = <<>>
    /\ r_out' = <<NoData>>
    /\ r_pc' = "done"
    /\ UNCHANGED <<r_in, r_target, r_latest>>
    /\ UNCHANGED <<call, fs, mainVars, parseVars, catVars, sumVars>>

\* Lines 133-142
RecSelect ==
    /\ r_pc = "start"
    /\ r_in # <<>>
    /\ r_latest' = Latest(r_in)
    /\ r_out' = <<>>
    /\ r_pc' = "spending"
    /\ UNCHANGED <<r_in, r_target>>
    /\ UNCHANGED <<call, fs, mainVars, parseVars, catVars, sumVars>>

\* Lines 145-150
RecOverspend ==
    /\ r_pc = "spending"
    /\ LET data == DictGet(r_in, r_latest, NewSummary)
       IN /\ Overspends(data.total)
          /\ r_out' = r_out \o SpendingPart(data)
    /\ r_pc' = "savings"
    /\ UNCHANGED <<r_in, r_target, r_latest>>
    /\ UNCHANGED <<call, fs, mainVars, parseVars, catVars, sumVars>>

\* Lines 151-152
RecReasonable ==
    /\ r_pc = "spending"
    /\ LET data == DictGet(r_in, r_latest, NewSummary)
       IN /\ ~Overspends(data.total)
          /\ r_out' = r_out \o SpendingPart(data)
    /\ r_pc' = "savings"
    /\ UNCHANGED <<r_in, r_target, r_latest>>
    /\ UNCHANGED <<call, fs, mainVars, parseVars, catVars, sumVars>>

\* Lines 154-163
RecSavings ==
    /\ r_pc = "savings"
    /\ r_target > 0
    /\ r_out' = r_out \o SavingsPart(DictGet(r_in, r_latest, NewSummary).total, r_target)
    /\ r_pc' = "return"
    /\ UNCHANGED <<r_in, r_target, r_latest>>
    /\ UNCHANGED <<call, fs, mainVars, parseVars, catVars, sumVars>>

\* Line 165
RecReturn ==
    /\ r_pc = "return" \/ (r_pc = "savings" /\ r_target <= 0)
    /\ r_pc' = "done"
    /\ UNCHANGED <<r_in, r_target, r_latest, r_out>>
    /\ UNCHANGED <<call, fs, mainVars, parseVars, catVars, sumVars>>

-----------------------------------------------------------------------------
(* Inputs of the advisor *)

MaxMonths == 2

CatDining == <<"D", "i", "n", "i", "n", "g">>
CatFun == <<"F", "u", "n">>
CatA == <<"A">>
CatB == <<"B">>
CatC == <<"C">>
CatD == <<"D">>
CatE == <<"E">>

Item(k, v) == [k |-> k, v |-> v]

RECURSIVE SumValues(_)
SumValues(d) == IF d = <<>> THEN 0 ELSE Head(d).v + SumValues(Tail(d))

\* A summary as monthly_summary builds it: the total is the sum of the
\* subtotals, and there is a category for the transactions counted.
SummaryOf(by_category) ==
    [total |-> SumValues(by_category), count |-> Len(by_category),
     by_category |-> by_category]

SummaryPool ==
    { SummaryOf(<<Item(CatDining, -40000), Item(CatFun, -20000)>>),
      SummaryOf(<<Item(CatDining, -50000)>>),
      SummaryOf(<<Item(CatDining, -50001)>>),
      SummaryOf(<<Item(CatD, -10000), Item(CatA, -30000), Item(CatC, 10000),
                  Item(CatB, -30000), Item(CatE, -5000)>>),
      SummaryOf(<<Item(CatIncome, 300000), Item(CatDining, -1000)>>),
      SummaryOf(<<Item(CatIncome, 200000)>>) }

KeyPool == {<<"2", "0", "2", "4", "-", "1", "2">>, <<"2", "0", "2", "5", "-", "0", "1">>, <<"2", "0", "2", "5", "-", "0", "2">>, Unknown}

MonthItems == {Item(k, v) : k \in KeyPool, v \in SummaryPool}

TargetPool == {-100, 0, 100, 200000}

\* A direct call recommend_budget(monthly, target_savings)
InitRec ==
    /\ call = "recommend"
    /\ fs = [n \in FileNames |-> NoFile]
    /\ r_in \in InjSeqsUpTo(MonthItems, MaxMonths)
    /\ r_target \in TargetPool
    /\ r_pc = "start"
    /\ r_latest = None
    /\ r_out = <<>>
    /\ IdleMain /\ IdleParse /\ IdleCat /\ IdleSum

NextRec ==
    \/ RecNoData
    \/ RecSelect
    \/ RecOverspend
    \/ RecReasonable
    \/ RecSavings
    \/ RecReturn

SpecRec == InitRec /\ [][NextRec]_vars

\* The steps of the function compute the function
RecStepsAgree == r_pc = "done" => r_out = RecommendBudget(r_in, r_target)

-----------------------------------------------------------------------------
(* Claims about recommend_budget (specification SpecRec) *)

KnownKeys == DictKeys(r_in) \ {Unknown}

\* The target month as the claims name it: the greatest key in the order of
\* strings among the keys other than "unknown", and "unknown" when there is
\* no other key.
ClaimTargetKey ==
    IF KnownKeys = {} THEN Unknown
    ELSE CHOOSE k \in KnownKeys : \A j \in KnownKeys : j = k \/ StrLess(j, k)

ClaimTarget == DictGet(r_in, ClaimTargetKey, NewSummary)

IsReduce(sug) == sug.kind = "reduce"
IsSavings(sug) == sug.kind \in {"increase", "meeting"}

\* C6: on a non-empty mapping the result depends only on the summary of the
\* greatest key other than "unknown" (of "unknown" when it is the only key):
\* it is the result on the mapping reduced to that one key, so no other
\* month's summary, nor that of "unknown", changes it.
C6_OnlyLatestMonthCounts ==
    (r_pc = "done" /\ r_in # <<>>) =>
        r_out = RecommendBudget(<<Item(ClaimTargetKey, ClaimTarget)>>, r_target)

\* Witness of C6: "unknown" was inserted last, after a dated month, and its
\* summary alone would have given other recommendations.
C6_Witness ==
    /\ r_pc = "done"
    /\ Len(r_in) >= 2
    /\ r_in[Len(r_in)].k = Unknown
    /\ r_in[1].k = ClaimTargetKey
    /\ RecommendBudget(<<r_in[Len(r_in)]>>, r_target) # r_out

\* C7: on a non-empty mapping there are reduce-spending suggestions exactly
\* when the target month's total is below -500; a total of -500 or more
\* gives the one suggestion "Spending looks reasonable this month." in their
\* place; an empty mapping gives exactly "No data to produce recommendation."
C7_StrictOverspendThreshold ==
    r_pc = "done" =>
        IF r_in = <<>> THEN r_out = <<NoData>>
        ELSE /\ (\E i \in 1..Len(r_out) : IsReduce(r_out[i])) <=> ClaimTarget.total < -500 * 100
             /\ ClaimTarget.total >= -500 * 100 =>
                   /\ r_out[1] = Reasonable
                   /\ \A i \in 2..Len(r_out) : IsSavings(r_out[i])

\* Witness of C7: a target month whose total is exactly -500.
C7_Witness ==
    /\ r_pc = "done"
    /\ r_in # <<>>
    /\ ClaimTarget.total = -500 * 100
    /\ r_out[1] = Reasonable

\* C8: the overspend branch emits min(3, number of categories of the target
\* month) reduce-spending suggestions, one per distinct category; a category
\* named has an absolute subtotal at least that of any category not named,
\* and the suggestions come in non-increasing order of absolute subtotal.
C8_TopThreeByMagnitude ==
    (r_pc = "done" /\ r_in # <<>> /\ ClaimTarget.total < -500 * 100) =>
        LET by_cat == ClaimTarget.by_category
            red == SelectSeq(r_out, IsReduce)
            named == {red[i].cat : i \in 1..Len(red)}
            mag(c) == Abs(DictGet(by_cat, c, 0))
        IN /\ Len(red) = IF Len(by_cat) < 3 THEN Len(by_cat) ELSE 3
           /\ Cardinality(named) = Len(red)
           /\ named \subseteq DictKeys(by_cat)
           /\ \A c \in named : \A u \in DictKeys(by_cat) \ named : mag(c) >= mag(u)
           /\ \A i, j \in 1..Len(red) : i < j => mag(red[i].cat) >= mag(red[j].cat)

\* Witness of C8: a target month of five categories, two of them of equal
\* magnitude, with three suggestions.
C8_Witness ==
    /\ r_pc = "done"
    /\ r_in # <<>>
    /\ ClaimTarget.total < -500 * 100
    /\ Len(ClaimTarget.by_category) = 5
    /\ Len(SelectSeq(r_out, IsReduce)) = 3
    /\ r_out[1].amt = r_out[2].amt

\* C9: on a non-empty mapping with target_savings > 0 there is exactly one
\* savings suggestion and it is the last element; it is the "increase
\* monthly savings" one exactly when target_savings exceeds max(0, target
\* month's total), else the "meeting or exceeding" one.  With
\* target_savings <= 0 there is no savings suggestion.
C9_SavingsSuggestionLast ==
    (r_pc = "done" /\ r_in # <<>>) =>
        LET sav == {i \in 1..Len(r_out) : IsSavings(r_out[i])}
            current == IF ClaimTarget.total > 0 THEN ClaimTarget.total ELSE 0
        IN IF r_target > 0
           THEN /\ sav = {Len(r_out)}
                /\ Len(r_out) >= 2
                /\ r_out[Len(r_out)].kind = "increase" <=> r_target > current
                /\ r_out[Len(r_out)].kind = "meeting" <=> r_target <= current
           ELSE sav = {}

\* Witness of C9: the month's total equals the target, and the last
\* suggestion is the "meeting or exceeding" one.
C9_Witness ==
    /\ r_pc = "done"
    /\ r_in # <<>>
    /\ r_target > 0
    /\ ClaimTarget.total = r_target
    /\ r_out[Len(r_out)] = Meeting

-----------------------------------------------------------------------------
(* main *)

\* target_savings of line 180, in the units of the source
MainTargetSavings == 2000

SampleCsv == "sample.csv"

Line(kind, v) == [kind |-> kind, v |-> v]

\* Lines 170-173
MainUsage ==
    /\ m_pc = "start"
    /\ Len(argv) < 2
    /\ stdout' = stdout \o <<Line("usage", <<>>), Line("example", <<>>)>>
    /\ m_pc' = "done"
    /\ UNCHANGED <<call, fs, argv, parseVars, catVars, sumVars, recVars>>

\* Lines 175-177: path is bound to sys.argv[1], and parse_transactions is
\* called with the literal "sample.csv".
MainCallParse ==
    /\ m_pc = "start"
    /\ Len(argv) >= 2
    /\ p_src' = [kind |-> "path", name |-> SampleCsv, rows |-> <<>>]
    /\ p_pc' = "start"
    /\ p_out' = <<>>
    /\ p_err' = NoErr
    /\ m_pc' = "parse"
    /\ UNCHANGED <<p_open, p_rows, p_fields>>
    /\ UNCHANGED <<call, fs, argv, stdout, catVars, sumVars, recVars>>

\* Lines 187-188: an exception of the try block
MainError ==
    /\ m_pc = "parse"
    /\ p_pc = "raised"
    /\ stdout' = Append(stdout, Line("error", p_err))
    /\ m_pc' = "done"
    /\ UNCHANGED <<call, fs, argv, parseVars, catVars, sumVars, recVars>>

\* Line 178
MainCallCategorize ==
    /\ m_pc = "parse"
    /\ p_pc = "done"
    /\ c_in' = p_out
    /\ c_rules' = [none |-> TRUE, items |-> <<>>]
    /\ c_pc' = "start"
    /\ m_pc' = "categorize"
    /\ UNCHANGED <<c_i, c_out>>
    /\ UNCHANGED <<call, fs, argv, stdout, parseVars, sumVars, recVars>>

\* Line 179
MainCallSummary ==
    /\ m_pc = "categorize"
    /\ c_pc = "done"
    /\ s_in' = c_out
    /\ s_pc' = "start"
    /\ m_pc' = "summary"
    /\ UNCHANGED <<s_i, s_summary, s_out>>
    /\ UNCHANGED <<call, fs, argv, stdout, parseVars, catVars, recVars>>

\* Line 180
MainCallRecommend ==
    /\ m_pc = "summary"
    /\ s_pc = "done"
    /\ r_in' = s_out
    /\ r_target' = MainTargetSavings * 100
    /\ r_pc' = "start"
    /\ m_pc' = "recommend"
    /\ UNCHANGED <<r_latest, r_out>>
    /\ UNCHANGED <<call, fs, argv, stdout, parseVars, catVars, sumVars>>

\* Lines 181-186: the suggestions, the header, one line per month in the
\* order of sorted(summary.items())
MainPrint ==
    /\ m_pc = "recommend"
    /\ r_pc = "done"
    /\ LET months == SortedStrs(KeysOf(s_out))
       IN stdout' =
              stdout
              \o [i \in 1..Len(r_out) |-> Line("suggestion", r_out[i])]
              \o <<Line("header", <<>>)>>
              \o [i \in 1..Len(months) |->
                    Line("month",
                         [month |-> months[i],
                          total |-> DictGet(s_out, months[i], NewSummary).total,
                          count |-> DictGet(s_out, months[i], NewSummary).count])]
    /\ m_pc' = "done"
    /\ UNCHANGED <<call, fs, argv, parseVars, catVars, sumVars, recVars>>

-----------------------------------------------------------------------------
(* Inputs of main *)

MaxMainRows == 2

OtherCsv == "a.csv"

ArgvPool == {<<"project.py">>, <<"project.py", SampleCsv>>, <<"project.py", OtherCsv>>}

\* python project.py [path], with sample.csv present or not in the
\* working directory
InitMain ==
    /\ call = "main"
    /\ argv \in ArgvPool
    /\ \E sample \in {NoFile} \cup {File(rows) : rows \in FilesUpTo(MaxMainRows)} :
          fs = [n \in FileNames |->
                  IF n = SampleCsv THEN sample ELSE File(<<HeaderLower>>)]
    /\ stdout = <<>>
    /\ m_pc = "start"
    /\ IdleParse /\ IdleCat /\ IdleSum /\ IdleRec

NextMain ==
    \/ MainUsage
    \/ MainCallParse
    \/ MainError
    \/ MainCallCategorize
    \/ MainCallSummary
    \/ MainCallRecommend
    \/ MainPrint
    \/ ParseOpen
    \/ ParseRowAppend
    \/ ParseRowDateError
    \/ ParseRowAmountError
    \/ ParseReturn
    \/ CatStart
    \/ CatStep
    \/ CatReturn
    \/ SumStart
    \/ SumStep
    \/ SumReturn
    \/ RecNoData
    \/ RecSelect
    \/ RecOverspend
    \/ RecReasonable
    \/ RecSavings
    \/ RecReturn

SpecMain == InitMain /\ [][NextMain]_vars

\* Every entry point
Init == InitParse \/ InitCat \/ InitSum \/ InitRec \/ InitMain

Next == NextMain

Spec == Init /\ [][Next]_vars

\* C10: with a positional argument, the file main hands to the parser is the
\* file the argument names, so that two different arguments make the parser
\* read two different files; with no argument main prints the usage message
\* and reads no file.
C10_MainReadsTheNamedFile ==
    /\ (m_pc \notin {"idle", "start"} /\ Len(argv) >= 2) =>
          (p_src.kind = "path" /\ p_src.name = argv[2])
    /\ (m_pc \notin {"idle", "start"} /\ Len(argv) < 2) =>
          /\ p_pc = "idle"
          /\ stdout = <<Line("usage", <<>>), Line("example", <<>>)>>

\* The part of C10 about the missing argument holds.
C10_UsageWithoutArgument ==
    (m_pc \notin {"idle", "start"} /\ Len(argv) < 2) =>
        /\ p_pc = "idle"
        /\ stdout = <<Line("usage", <<>>), Line("example", <<>>)>>

====
